---- MODULE Spec2Model ----
(***************************************************************************)
(* Refund-Guard: the analysis endpoint POST /api/analyze of the two server *)
(* entry points of the repository (server/server.js and the policy-merging *)
(* server of src/unnamed/part_001), the same endpoint serving requests     *)
(* concurrently, and the React client (src/unnamed/part_000): its fields,  *)
(* the values rendered from them, and a submission from the click to the   *)
(* audit write.                                                            *)
(*                                                                         *)
(* JavaScript values are tagged records.  A number is an exact rational    *)
(* n/d in lowest terms (d > 0); IEEE rounding of the double arithmetic is  *)
(* not modelled.  A string value of a request is a tagged sequence of      *)
(* one-char strings; messages and labels the code only passes on are TLA+  *)
(* strings.  A JSON object is a function from its keys to its values.      *)
(***************************************************************************)
EXTENDS Integers, Sequences, FiniteSets, TLC

VARIABLES
    server,           \* which entry point is running: "server_js" or "part_001"
    pc,               \* position of the POST /api/analyze handler
    body,             \* req.body of the call being handled
    input,            \* AnalyzeSchema.parse(req.body)
    refundPercent,    \* part_001 handler local (line 203)
    softCapExceeded,  \* part_001 handler local (line 204)
    hardCapExceeded,  \* part_001 handler local (line 206)
    prompt,           \* the instruction built by buildPrompt
    engineCalls,      \* fetch() calls issued to the engine during this call
    reply,            \* what the engine answered to the fetch
    response,         \* the HTTP response sent (res.json / res.status(400).json)
    calls,            \* the handler invocations of requests served concurrently
    bookingTotal,     \* client: Booking Total input field (characters)
    refundedAmount,   \* client: Refunded Amount input field (characters)
    rawNotes,         \* client: Agent Notes textarea (characters)
    issueType,        \* client: Issue Type select (characters)
    loading,          \* client: a submission is in flight
    payload,          \* client: the JSON body of the last request sent
    agentEmail,       \* client: Agent Email input field (characters)
    result,           \* client: the analysis displayed (null: none)
    saveStatus,       \* client: the status banner
    step,             \* client: the await handleAnalyze is suspended at
    closure,          \* client: the field values the running handleAnalyze closed over
    fetches,          \* client: analysis requests awaiting their response
    addDocs,          \* client: audit writes awaiting their outcome
    auditDoc          \* client: the document this submission handed to addDoc

serverVars == <<server, pc, body, input, refundPercent, softCapExceeded,
                hardCapExceeded, prompt, engineCalls, reply, response, calls>>
flowVars == <<agentEmail, result, saveStatus, step, closure, fetches, addDocs, auditDoc>>
clientVars == <<rawNotes, issueType, bookingTotal, refundedAmount, loading, payload,
                flowVars>>
vars == <<serverVars, clientVars>>

(***************************************************************************)
(* JavaScript values                                                       *)
(***************************************************************************)
Undefined == [k |-> "undefined"]
Null      == [k |-> "null"]
NaN       == [k |-> "NaN"]
Str(chars) == [k |-> "string", s |-> chars]
NonNumber == Str(<<"1", "0", "0">>)   \* a number sent as a string

RECURSIVE GCD(_, _)
GCD(a, b) == IF b = 0 THEN a ELSE GCD(b, a % b)

Abs(n) == IF n < 0 THEN -n ELSE n

\* the rational n/d (d # 0) as a number value in lowest terms, d > 0
Num(n, d) ==
    LET g == GCD(Abs(n), Abs(d))
        s == IF d < 0 THEN -1 ELSE 1
    IN  [k |-> "number", n |-> (s * n) \div g, d |-> (s * d) \div g]

Whole(n) == Num(n, 1)

IsNumber(v) == v.k = "number"

\* a > b on numbers
Greater(a, b) == a.n * b.d > b.n * a.d

\* !v for a number-or-null-or-undefined value
Falsy(v) == v.k \in {"undefined", "null", "NaN"} \/ (IsNumber(v) /\ v.n = 0)

\* v == null (loose): null or undefined
IsNullish(v) == v.k \in {"undefined", "null"}

\* {...a, ...b}: the keys of both, b's value where both have the key
Spread(a, b) ==
    [key \in (DOMAIN a) \cup (DOMAIN b) |-> IF key \in DOMAIN b THEN b[key] ELSE a[key]]

EmptyObject == [key \in {} |-> Null]

(***************************************************************************)
(* Request validation (zod)                                                *)
(***************************************************************************)
MinRawNotes == 10
MinIssueType == 1
DefaultEncouragedCap == 15
DefaultMaxCap == 20

IsString(v) == v.k = "string"
NumberNullableOptional(v) == v.k \in {"number", "null", "undefined"}
NumberWithDefault(v) == v.k \in {"number", "undefined"}

\* faulty variant: rawNotes without .min(10)
AnalyzeSchemaOk_NoMinLength(b) ==
    /\ IsString(b.rawNotes)
    /\ IsString(b.issueType) /\ Len(b.issueType.s) >= MinIssueType
    /\ NumberNullableOptional(b.bookingTotal)
    /\ NumberNullableOptional(b.refundedAmount)
    /\ NumberWithDefault(b.encouragedRefundCapPercent)
    /\ NumberWithDefault(b.maxRefundCapPercent)

\* AnalyzeSchema.parse(b) does not throw
AnalyzeSchemaOk(b) ==
    /\ IsString(b.rawNotes)  /\ Len(b.rawNotes.s) >= MinRawNotes
    /\ IsString(b.issueType) /\ Len(b.issueType.s) >= MinIssueType
    /\ NumberNullableOptional(b.bookingTotal)
    /\ NumberNullableOptional(b.refundedAmount)
    /\ NumberWithDefault(b.encouragedRefundCapPercent)
    /\ NumberWithDefault(b.maxRefundCapPercent)

\* the value AnalyzeSchema.parse(b) returns when it does not throw
AnalyzeSchemaParse(b) ==
    [b EXCEPT
       !.encouragedRefundCapPercent =
           IF @ = Undefined THEN Whole(DefaultEncouragedCap) ELSE @,
       !.maxRefundCapPercent =
           IF @ = Undefined THEN Whole(DefaultMaxCap) ELSE @]

(***************************************************************************)
(* Refund policy calculator                                                *)
(***************************************************************************)
\* faulty variant: a negative total is not refused
computeRefundPercent_NoSignCheck(total, refunded) ==
    IF Falsy(total) THEN Null
    ELSE IF IsNullish(refunded) THEN Null
    ELSE Num(refunded.n * total.d * 100, refunded.d * total.n)

computeRefundPercent(total, refunded) ==
    IF Falsy(total) \/ total.n <= 0 THEN Null
    ELSE IF IsNullish(refunded) THEN Null
    ELSE Num(refunded.n * total.d * 100, refunded.d * total.n)

\* faulty variant: >= in place of >
CapExceeded_AtOrAbove(percent, cap) ==
    percent # Null /\ (Greater(percent, cap) \/ percent = cap)

\* faulty variant: < in place of >
CapExceeded_Below(percent, cap) == percent # Null /\ Greater(cap, percent)

\* refundPercent != null && refundPercent > cap
CapExceeded(percent, cap) == percent # Null /\ Greater(percent, cap)

\* percent.toFixed(2) as a count of hundredths, rounded half away from zero
ToFixed2(percent) ==
    LET h == (Abs(percent.n) * 200 + percent.d) \div (2 * percent.d)
    IN  IF percent.n < 0 THEN -h ELSE h

\* v ?? "unknown"
OrUnknown(v) == IF IsNullish(v) THEN [k |-> "unknown"] ELSE v

\* the parts of the instruction that depend on the request; violationRule
\* is the "above max cap => POLICY VIOLATION" line and policyShape the
\* "policy" member of the requested output shape (part_001 only)
buildPrompt(in, withPolicy) ==
    LET percent == computeRefundPercent(in.bookingTotal, in.refundedAmount)
    IN  [encouragedCap  |-> in.encouragedRefundCapPercent,
         maxCap         |-> in.maxRefundCapPercent,
         violationRule  |-> withPolicy,
         policyShape    |-> withPolicy,
         issueType      |-> in.issueType,
         bookingTotal   |-> OrUnknown(in.bookingTotal),
         refundedAmount |-> OrUnknown(in.refundedAmount),
         refundPercent  |-> IF percent = Null THEN [k |-> "unknown"]
                            ELSE [k |-> "fixed2", hundredths |-> ToFixed2(percent)],
         rawNotes       |-> in.rawNotes]

NoPrompt == [k |-> "none"]

(***************************************************************************)
(* Reasoning engine client                                                 *)
(*                                                                         *)
(* The engine's text is a sequence over TextChars: "{" and "}" are braces, *)
(* "w" is a word of prose.  The only text that is a JSON document is       *)
(* <<"{", "}">>, whose members (not spelled out) are those of reply.obj.   *)
(***************************************************************************)
MaxText == 3
TextChars == {"{", "}", "w"}

ModelTexts == UNION {[1..len -> TextChars] : len \in 0..MaxText}

SeqFields == {"signals", "warnings", "recommended_script", "next_steps", "missing_info"}
PolicyFields == {"encouraged_cap_percent", "max_cap_percent", "refund_percent",
                 "soft_cap_exceeded", "hard_cap_exceeded"}

\* policy sub-objects an engine may send
HallucinatedPolicy ==
    [encouraged_cap_percent |-> Whole(50), max_cap_percent |-> Whole(60),
     refund_percent |-> Whole(1), soft_cap_exceeded |-> FALSE,
     hard_cap_exceeded |-> FALSE]
AgreeingPolicy ==
    [encouraged_cap_percent |-> Whole(15), max_cap_percent |-> Whole(20),
     refund_percent |-> Whole(25), soft_cap_exceeded |-> TRUE,
     hard_cap_exceeded |-> TRUE]
PartialPolicy == [refund_percent |-> Null, reviewer |-> "manager"]

Scores == [risk_score |-> Whole(80), risk_level |-> "high", confidence |-> Num(9, 10)]
AllSeqFields == [f \in SeqFields |-> IF f = "warnings" THEN <<>> ELSE <<f>>]
SomeSeqFields == [signals |-> <<"signals">>, warnings |-> <<"warnings">>]

\* the JSON objects an engine may send
EngineObjects ==
    { Spread(Scores, AllSeqFields),
      Spread(Spread(Scores, AllSeqFields), [policy |-> HallucinatedPolicy]),
      Spread(Spread(Scores, AllSeqFields), [policy |-> AgreeingPolicy]),
      Spread(Spread(Scores, SomeSeqFields), [policy |-> PartialPolicy]),
      Spread(Scores, [policy |-> Null]),
      Scores }

RawErrorBodies == {"", "quota exceeded"}

\* what the engine may answer to one fetch: the fetch rejects (kind "network"),
\* or a response with resp.ok, the raw body, and, for a raw body that is JSON,
\* the text at candidates[0].content.parts[0].text (<<>> when there is none)
NoReply == [kind |-> "none"]
Replies ==
    {[kind |-> "network"]}
    \cup {[kind |-> "http", ok |-> FALSE, raw |-> r] : r \in RawErrorBodies}
    \cup {[kind |-> "http", ok |-> TRUE, raw |-> "<html>"]}
    \cup {[kind |-> "http", ok |-> TRUE, raw |-> "json", text |-> t, obj |-> o] :
            t \in ModelTexts, o \in EngineObjects}

Returned(v) == [ok |-> TRUE, value |-> v]
Thrown(msg) == [ok |-> FALSE, message |-> msg]

\* JSON.parse(text): the document denotes obj
JSONParse(text, obj) ==
    IF text = <<"{", "}">> THEN Returned(obj) ELSE Thrown("SyntaxError")

\* text.indexOf(c), text.lastIndexOf(c): 0-based, -1 when c does not occur
IndexOf(text, c) ==
    IF \E i \in 1..Len(text) : text[i] = c
    THEN (CHOOSE i \in 1..Len(text) : text[i] = c /\ \A j \in 1..(i-1) : text[j] # c) - 1
    ELSE -1
LastIndexOf(text, c) ==
    IF \E i \in 1..Len(text) : text[i] = c
    THEN (CHOOSE i \in 1..Len(text) : text[i] = c /\ \A j \in (i+1)..Len(text) : text[j] # c) - 1
    ELSE -1

\* text.slice(start, end) for 0 <= start <= end <= text.length
Slice(text, start, end) == SubSeq(text, start + 1, end)

\* faulty variant: the raw body is parsed before resp.ok is looked at
modelText_ParseFirst(r) ==
    IF r.kind = "network" THEN Thrown("fetch failed")
    ELSE IF r.raw # "json" THEN Thrown("SyntaxError")
    ELSE IF ~r.ok THEN Thrown(r.raw)
    ELSE IF r.text = <<>> THEN Thrown("No model text returned")
    ELSE Returned(r.text)

\* the part of geminiGenerateJson both servers share: fetch, resp.ok,
\* JSON.parse(raw), modelText
modelText(r) ==
    IF r.kind = "network" THEN Thrown("fetch failed")
    ELSE IF ~r.ok THEN Thrown(r.raw)
    ELSE IF r.raw # "json" THEN Thrown("SyntaxError")
    ELSE IF r.text = <<>> THEN Thrown("No model text returned")
    ELSE Returned(r.text)

\* server/server.js: strict parse, then the first "{" .. last "}" span
ParseWithFallback(text, obj) ==
    IF JSONParse(text, obj).ok THEN JSONParse(text, obj)
    ELSE LET start == IndexOf(text, "{")
             end   == LastIndexOf(text, "}")
         IN  IF start = -1 \/ end = -1 \/ end <= start
             THEN Thrown("Model did not return JSON")
             ELSE JSONParse(Slice(text, start, end + 1), obj)

geminiGenerateJson_server_js(r) ==
    IF modelText(r).ok THEN ParseWithFallback(modelText(r).value, r.obj)
    ELSE modelText(r)

\* part_001: strict parse only
geminiGenerateJson_part_001(r) ==
    IF modelText(r).ok THEN JSONParse(modelText(r).value, r.obj)
    ELSE modelText(r)

(***************************************************************************)
(* Analysis endpoint: POST /api/analyze                                    *)
(***************************************************************************)
Chars(c, len) == [i \in 1..len |-> c]

\* request bodies sent to the endpoint (a missing key is Undefined)
RawNotesInputs == {Undefined, Str(Chars("n", 5)), Str(Chars("n", 9)), Str(Chars("n", 10))}
IssueTypeInputs == {Str(<<>>), Str(<<"R", "e", "f", "u", "n", "d">>)}
BookingTotalInputs ==
    {Undefined, Null, NonNumber, Whole(0), Whole(-100), Whole(100), Whole(560)}
RefundedAmountInputs ==
    {Undefined, Null, Whole(15), Whole(20), Whole(25), Whole(50), Num(8506, 100)}
EncouragedCapInputs == {Undefined, Whole(25)}
MaxCapInputs == {Undefined, Null, Whole(20)}

RequestBodies ==
    [rawNotes : RawNotesInputs, issueType : IssueTypeInputs,
     bookingTotal : BookingTotalInputs, refundedAmount : RefundedAmountInputs,
     encouragedRefundCapPercent : EncouragedCapInputs,
     maxRefundCapPercent : MaxCapInputs]

NoResponse == [status |-> 0, body |-> EmptyObject]

\* res.json(v)
JsonResponse(v) == [status |-> 200, body |-> v]

\* faulty variant: the status of the /debug/gemini route
ErrorResponse_500(msg) == [status |-> 500, body |-> [ok |-> FALSE, error |-> msg]]

\* the catch block: res.status(400).json({ error: msg })
ErrorResponse(msg) == [status |-> 400, body |-> [error |-> msg]]

\* data?.policy || {}
PolicyOrEmpty(data) ==
    IF "policy" \in DOMAIN data /\ data["policy"] # Null
    THEN data["policy"] ELSE EmptyObject

\* faulty variant: the policy sub-object holds the local facts only
Merged_LocalPolicyOnly(data, in, percent, soft, hard) ==
    Spread(data,
           [policy |->
              [encouraged_cap_percent |-> in.encouragedRefundCapPercent,
               max_cap_percent        |-> in.maxRefundCapPercent,
               refund_percent         |-> percent,
               soft_cap_exceeded      |-> soft,
               hard_cap_exceeded      |-> hard]])

\* part_001 lines 213-223: { ...data, policy: { <local facts>, ...(data?.policy || {}) } }
Merged(data, in, percent, soft, hard) ==
    Spread(data,
           [policy |->
              Spread([encouraged_cap_percent |-> in.encouragedRefundCapPercent,
                      max_cap_percent        |-> in.maxRefundCapPercent,
                      refund_percent         |-> percent,
                      soft_cap_exceeded      |-> soft,
                      hard_cap_exceeded      |-> hard],
                     PolicyOrEmpty(data))])

\* one call of the endpoint is followed from its request to its response
Idle == pc = "idle"

\* faulty variant: a failed engine call is retried once
Catch_Retry(msg) ==
    IF engineCalls < 2
    THEN /\ response' = NoResponse
         /\ pc' = "engine-invoked"
         /\ engineCalls' = engineCalls + 1
    ELSE /\ response' = ErrorResponse(msg)
         /\ pc' = "error-responded"
         /\ UNCHANGED engineCalls

\* the catch block after the engine was invoked: one error response, no retry
Catch(msg) ==
    /\ response' = ErrorResponse(msg)
    /\ pc' = "error-responded"
    /\ UNCHANGED engineCalls

\* validation failed: the catch block answers, nothing else of the handler ran
ValidationFailed(b) ==
    /\ body' = b
    /\ input' = Undefined
    /\ refundPercent' = Undefined
    /\ softCapExceeded' = Undefined
    /\ hardCapExceeded' = Undefined
    /\ prompt' = NoPrompt
    /\ engineCalls' = 0
    /\ reply' = NoReply
    /\ response' = ErrorResponse("ZodError")
    /\ pc' = "error-responded"

\* server/server.js lines 164-168, up to the await of the fetch
AnalyzePost_server_js ==
    /\ server = "server_js"
    /\ Idle
    /\ \E b \in RequestBodies :
       IF ~AnalyzeSchemaOk(b) THEN ValidationFailed(b)
       ELSE /\ body' = b
            /\ input' = AnalyzeSchemaParse(b)
            /\ refundPercent' = Undefined
            /\ softCapExceeded' = Undefined
            /\ hardCapExceeded' = Undefined
            /\ prompt' = buildPrompt(AnalyzeSchemaParse(b), FALSE)
            /\ engineCalls' = 1
            /\ reply' = NoReply
            /\ response' = NoResponse
            /\ pc' = "engine-invoked"
    /\ UNCHANGED <<server, calls, clientVars>>

\* part_001 lines 199-210, up to the await of the fetch
AnalyzePost_part_001 ==
    /\ server = "part_001"
    /\ Idle
    /\ \E b \in RequestBodies :
       IF ~AnalyzeSchemaOk(b) THEN ValidationFailed(b)
       ELSE LET in      == AnalyzeSchemaParse(b)
                percent == computeRefundPercent(in.bookingTotal, in.refundedAmount)
            IN  /\ body' = b
                /\ input' = in
                /\ refundPercent' = percent
                /\ softCapExceeded' = CapExceeded(percent, in.encouragedRefundCapPercent)
                /\ hardCapExceeded' = CapExceeded(percent, in.maxRefundCapPercent)
                /\ prompt' = buildPrompt(in, TRUE)
                /\ engineCalls' = 1
                /\ reply' = NoReply
                /\ response' = NoResponse
                /\ pc' = "engine-invoked"
    /\ UNCHANGED <<server, calls, clientVars>>

\* server/server.js lines 168-174, from the engine's answer to the response
AnalyzeResume_server_js ==
    /\ server = "server_js"
    /\ pc = "engine-invoked"
    /\ \E r \in Replies :
       /\ reply' = r
       /\ LET data == geminiGenerateJson_server_js(r)
           IN  IF data.ok
               THEN /\ response' = JsonResponse(data.value)
                    /\ pc' = "responded"
                    /\ UNCHANGED engineCalls
               ELSE Catch(data.message)
    /\ UNCHANGED <<server, body, input, refundPercent, softCapExceeded,
                   hardCapExceeded, prompt, calls, clientVars>>

\* part_001 lines 210-230, from the engine's answer to the response
AnalyzeResume_part_001 ==
    /\ server = "part_001"
    /\ pc = "engine-invoked"
    /\ \E r \in Replies :
       /\ reply' = r
       /\ LET data == geminiGenerateJson_part_001(r)
           IN  IF data.ok
               THEN /\ response' = JsonResponse(Merged(data.value, input, refundPercent,
                                                       softCapExceeded, hardCapExceeded))
                    /\ pc' = "responded"
                    /\ UNCHANGED engineCalls
               ELSE Catch(data.message)
    /\ UNCHANGED <<server, body, input, refundPercent, softCapExceeded,
                   hardCapExceeded, prompt, calls, clientVars>>

(***************************************************************************)
(* Requests served concurrently: each invocation of the handler has its    *)
(* own const bindings; an await of the engine lets other invocations run   *)
(***************************************************************************)
MaxRequests == 2
RequestIds == 1..MaxRequests

ConcurrentBodies ==
    { [rawNotes |-> Str(Chars("n", len)), issueType |-> Str(<<"R", "e", "f", "u", "n", "d">>),
       bookingTotal |-> total, refundedAmount |-> Whole(25),
       encouragedRefundCapPercent |-> Undefined, maxRefundCapPercent |-> Undefined] :
        len \in {5, 10}, total \in {Null, Whole(100), Whole(560)} }

ConcurrentReplies ==
    { [kind |-> "network"],
      [kind |-> "http", ok |-> FALSE, raw |-> "quota exceeded"],
      [kind |-> "http", ok |-> TRUE, raw |-> "json", text |-> <<"w">>, obj |-> Scores],
      [kind |-> "http", ok |-> TRUE, raw |-> "json", text |-> <<"{", "}">>, obj |-> Scores],
      [kind |-> "http", ok |-> TRUE, raw |-> "json", text |-> <<"{", "}">>,
       obj |-> Spread(Spread(Scores, SomeSeqFields), [policy |-> PartialPolicy])] }

\* an invocation that has not started; overlap: another invocation was
\* awaiting the engine when this one answered
IdleCall ==
    [pc |-> "idle", body |-> Undefined, input |-> Undefined, refundPercent |-> Undefined,
     softCapExceeded |-> Undefined, hardCapExceeded |-> Undefined,
     reply |-> NoReply, response |-> NoResponse, overlap |-> FALSE]

\* faulty variant: the bindings are module-level, so an invocation reads what
\* another invocation assigned
HandlerLocals_ModuleLevel(i) ==
    LET others == {j \in RequestIds \ {i} : calls[j].pc # "idle" /\ calls[j].input # Undefined}
    IN  IF others # {} THEN calls[CHOOSE j \in others : TRUE] ELSE calls[i]

\* the const bindings of invocation i (input, refundPercent, softCapExceeded,
\* hardCapExceeded): declared inside the handler
HandlerLocals(i) == calls[i]

\* the handler up to the await of the engine, for the request body b
Posted(srv, b) ==
    IF ~AnalyzeSchemaOk(b)
    THEN [IdleCall EXCEPT !.pc = "error-responded", !.body = b,
                          !.response = ErrorResponse("ZodError")]
    ELSE LET in      == AnalyzeSchemaParse(b)
             percent == computeRefundPercent(in.bookingTotal, in.refundedAmount)
         IN  IF srv = "server_js"
             THEN [IdleCall EXCEPT !.pc = "engine-invoked", !.body = b, !.input = in]
             ELSE [IdleCall EXCEPT
                      !.pc = "engine-invoked", !.body = b, !.input = in,
                      !.refundPercent = percent,
                      !.softCapExceeded = CapExceeded(percent, in.encouragedRefundCapPercent),
                      !.hardCapExceeded = CapExceeded(percent, in.maxRefundCapPercent)]

\* the handler from the engine's answer r to the response, reading the
\* bindings l
Resumed(srv, c, l, r, overlapping) ==
    LET data == IF srv = "server_js" THEN geminiGenerateJson_server_js(r)
                ELSE geminiGenerateJson_part_001(r)
    IN  [c EXCEPT
           !.reply = r,
           !.overlap = overlapping,
           !.pc = IF data.ok THEN "responded" ELSE "error-responded",
           !.response =
              IF ~data.ok THEN ErrorResponse(data.message)
              ELSE IF srv = "server_js" THEN JsonResponse(data.value)
              ELSE JsonResponse(Merged(data.value, l.input, l.refundPercent,
                                       l.softCapExceeded, l.hardCapExceeded))]

PostAnalyze(i) ==
    /\ calls[i].pc = "idle"
    /\ \E b \in ConcurrentBodies : calls' = [calls EXCEPT ![i] = Posted(server, b)]
    /\ UNCHANGED <<server, pc, body, input, refundPercent, softCapExceeded,
                   hardCapExceeded, prompt, engineCalls, reply, response, clientVars>>

ResumeAnalyze(i) ==
    /\ calls[i].pc = "engine-invoked"
    /\ \E r \in ConcurrentReplies :
          calls' = [calls EXCEPT ![i] =
                      Resumed(server, calls[i], HandlerLocals(i), r,
                              \E j \in RequestIds \ {i} : calls[j].pc = "engine-invoked")]
    /\ UNCHANGED <<server, pc, body, input, refundPercent, softCapExceeded,
                   hardCapExceeded, prompt, engineCalls, reply, response, clientVars>>

(***************************************************************************)
(* Client (App): the input fields and the submission                       *)
(***************************************************************************)
Infinity == [k |-> "Infinity"]

Digits == {"0", "1", "2", "3", "4", "5", "6", "7", "8", "9"}
DigitValue(c) ==
    CASE c = "0" -> 0 [] c = "1" -> 1 [] c = "2" -> 2 [] c = "3" -> 3 [] c = "4" -> 4
      [] c = "5" -> 5 [] c = "6" -> 6 [] c = "7" -> 7 [] c = "8" -> 8 [] c = "9" -> 9

RECURSIVE DigitsValue(_)
DigitsValue(s) ==
    IF s = <<>> THEN 0
    ELSE DigitsValue(SubSeq(s, 1, Len(s) - 1)) * 10 + DigitValue(s[Len(s)])

RECURSIVE Pow10(_)
Pow10(e) == IF e = 0 THEN 1 ELSE 10 * Pow10(e - 1)

RECURSIVE Trim(_)
Trim(s) ==
    IF s # <<>> /\ Head(s) = " " THEN Trim(Tail(s))
    ELSE IF s # <<>> /\ s[Len(s)] = " " THEN Trim(SubSeq(s, 1, Len(s) - 1))
    ELSE s

AllDigits(s) == \A i \in 1..Len(s) : s[i] \in Digits

\* an unsigned decimal literal: digits, digits "." digits?, or "." digits
UnsignedNumber(s) ==
    LET dot == IndexOf(s, ".")
        whole == IF dot = -1 THEN s ELSE SubSeq(s, 1, dot)
        frac  == IF dot = -1 THEN <<>> ELSE SubSeq(s, dot + 2, Len(s))
    IN  IF AllDigits(whole) /\ AllDigits(frac) /\ Len(whole) + Len(frac) > 0
        THEN Num(DigitsValue(whole) * Pow10(Len(frac)) + DigitsValue(frac),
                 Pow10(Len(frac)))
        ELSE NaN

\* Number(s) for a string s: blank is 0, a decimal literal with an optional
\* sign is its value, "Infinity" is Infinity, anything else NaN (exponents
\* and hexadecimal literals are not among the field contents modelled)
StringToNumber(s) ==
    LET t == Trim(s)
        signed == t # <<>> /\ Head(t) \in {"-", "+"}
        u == IF signed THEN Tail(t) ELSE t
        v == UnsignedNumber(u)
    IN  IF t = <<>> THEN Whole(0)
        ELSE IF u = <<"I", "n", "f", "i", "n", "i", "t", "y">> THEN Infinity
        ELSE IF IsNumber(v) /\ signed /\ Head(t) = "-" THEN Num(-v.n, v.d)
        ELSE v

\* toNumber (part_000 lines 60-63)
toNumber(value) ==
    LET n == StringToNumber(value)
    IN  IF IsNumber(n) THEN n ELSE Null

\* the refundPercent useMemo (part_000 lines 82-87)
ClientRefundPercent(total_text, refunded_text) ==
    LET total    == toNumber(total_text)
        refunded == toNumber(refunded_text)
    IN  IF Falsy(total) \/ total.n <= 0 \/ refunded = Null THEN Null
        ELSE Num(refunded.n * total.d * 100, refunded.d * total.n)

\* the thresholds written into capWarning (part_000 lines 90-93)
HintEscalateAbove == 15
HintCautionFrom == 12

\* faulty variant: a percent equal to the cap already asks for escalation
capWarning_AtOrAbove(percent) ==
    IF percent # Null /\ ~Greater(Whole(HintEscalateAbove), percent)
    THEN "Over 15% cap - escalation required"
    ELSE IF percent # Null /\ ~Greater(Whole(HintCautionFrom), percent)
    THEN "Close to 15% cap - be careful"
    ELSE "null"

\* the capWarning useMemo (part_000 lines 89-94); "null" stands for null
capWarning(percent) ==
    IF percent # Null /\ Greater(percent, Whole(HintEscalateAbove))
    THEN "Over 15% cap - escalation required"
    ELSE IF percent # Null /\ ~Greater(Whole(HintCautionFrom), percent)
    THEN "Close to 15% cap - be careful"
    ELSE "null"

\* field ? Number(field) : null
NumberOrNull(field) == IF field # <<>> THEN StringToNumber(field) ELSE Null

\* JSON.stringify then JSON.parse of a number or null: NaN and Infinity become null
ViaJSON(v) == IF v.k \in {"NaN", "Infinity"} THEN Null ELSE v

\* the request body the server receives for the payload of lines 102-110
Payload(notes, issue, total_text, refunded_text) ==
    [rawNotes       |-> Str(notes),
     issueType      |-> Str(issue),
     bookingTotal   |-> ViaJSON(NumberOrNull(total_text)),
     refundedAmount |-> ViaJSON(NumberOrNull(refunded_text)),
     encouragedRefundCapPercent |-> Whole(15),
     maxRefundCapPercent        |-> Whole(20)]

\* contents typed into the fields
FieldTexts ==
    { <<>>, <<" ">>, <<"x">>, <<"0">>, <<".">>, <<"-", "5">>, <<"2", "5">>,
      <<"1", "0", "0">>, <<"5", "6", "0">>, <<"8", "5", ".", "0", "6">>,
      <<"I", "n", "f", "i", "n", "i", "t", "y">> }
NotesTexts == { <<>>, <<" ", " ">>, Chars("n", 12) }
IssueTypeOptions == { <<"M", "o", "d", "i", "f", "i", "c", "a", "t", "i", "o", "n">>,
                      <<"R", "e", "f", "u", "n", "d">> }

Modification == <<"M", "o", "d", "i", "f", "i", "c", "a", "t", "i", "o", "n">>
AgentEmails == { <<>>, <<"a", "@", "b">> }
\* contents typed into the amount fields while the whole submission is followed
AmountTexts == { <<>>, <<"2", "5">>, <<"1", "0", "0">> }

\* the status banner: "", "Saving to Firestore...", the saved line, or the
\* cross mark followed by an error message
NoStatus == [banner |-> "none"]
Saving == [banner |-> "saving"]
Saved == [banner |-> "saved"]
Failed(msg) == [banner |-> "error", message |-> msg]

NoClosure == [k |-> "none"]
NoDoc == [k |-> "none"]
ServerTimestamp == [k |-> "serverTimestamp"]

\* what a response with res.ok carries: an analysis with every field, one
\* with the scores only, the JSON document null, or a body that is not JSON
NotJSON == [k |-> "not-json"]
ResponseBodies ==
    { Spread(Spread(Scores, AllSeqFields), [policy |-> AgreeingPolicy]),
      Scores, Null, NotJSON }
\* await res.text() of a response without res.ok
ErrorTexts == {"", "{\"error\":\"ZodError\"}"}
AddDocErrors == {"Missing or insufficient permissions."}

\* data.key, undefined when data has no such member
Member(data, key) == IF key \in DOMAIN data THEN data[key] ELSE Undefined
\* data.key ?? dflt (no response modelled carries a null member)
OrElse(data, key, dflt) == IF key \in DOMAIN data THEN data[key] ELSE dflt

\* the document of lines 129-146, from the values handleAnalyze closed over
AuditRecord(c, data) ==
    [createdAt      |-> ServerTimestamp,
     agentEmail     |-> Str(IF c.agentEmail = <<>>
                            THEN <<"u", "n", "k", "n", "o", "w", "n">>
                            ELSE c.agentEmail),
     issueType      |-> Str(c.issueType),
     rawNotes       |-> Str(c.rawNotes),
     bookingTotal   |-> toNumber(c.bookingTotal),
     refundedAmount |-> toNumber(c.refundedAmount),
     refundPercent  |-> ClientRefundPercent(c.bookingTotal, c.refundedAmount),
     risk_score     |-> Member(data, "risk_score"),
     risk_level     |-> Member(data, "risk_level"),
     confidence     |-> Member(data, "confidence"),
     signals            |-> OrElse(data, "signals", <<>>),
     warnings           |-> OrElse(data, "warnings", <<>>),
     next_steps         |-> OrElse(data, "next_steps", <<>>),
     recommended_script |-> OrElse(data, "recommended_script", <<>>),
     missing_info       |-> OrElse(data, "missing_info", <<>>),
     meta               |-> OrElse(data, "meta", EmptyObject)]

setRawNotes ==
    /\ \E v \in NotesTexts : rawNotes' = v
    /\ UNCHANGED <<issueType, bookingTotal, refundedAmount, loading, payload,
                   flowVars, serverVars>>

setIssueType ==
    /\ \E v \in IssueTypeOptions : issueType' = v
    /\ UNCHANGED <<rawNotes, bookingTotal, refundedAmount, loading, payload,
                   flowVars, serverVars>>

setBookingTotal ==
    /\ \E v \in FieldTexts : bookingTotal' = v
    /\ UNCHANGED <<rawNotes, issueType, refundedAmount, loading, payload,
                   flowVars, serverVars>>

setRefundedAmount ==
    /\ \E v \in FieldTexts : refundedAmount' = v
    /\ UNCHANGED <<rawNotes, issueType, bookingTotal, loading, payload,
                   flowVars, serverVars>>

\* the same two onChange handlers, typing from AmountTexts
editBookingTotal ==
    /\ \E v \in AmountTexts : bookingTotal' = v
    /\ UNCHANGED <<rawNotes, issueType, refundedAmount, loading, payload,
                   flowVars, serverVars>>

editRefundedAmount ==
    /\ \E v \in AmountTexts : refundedAmount' = v
    /\ UNCHANGED <<rawNotes, issueType, bookingTotal, loading, payload,
                   flowVars, serverVars>>

\* the same two onChange handlers, typing amounts around the cap
CapTexts ==
    { <<>>, <<"0">>, <<"1", "0", "0">>, <<"2", "0", "0">>, <<"1", "1", ".", "9", "9">>,
      <<"1", "2">>, <<"1", "4">>, <<"1", "5">>, <<"1", "5", ".", "0", "1">>,
      <<"-", "5">> }

typeBookingTotal ==
    /\ \E v \in CapTexts : bookingTotal' = v
    /\ UNCHANGED <<rawNotes, issueType, refundedAmount, loading, payload,
                   flowVars, serverVars>>

typeRefundedAmount ==
    /\ \E v \in CapTexts : refundedAmount' = v
    /\ UNCHANGED <<rawNotes, issueType, bookingTotal, loading, payload,
                   flowVars, serverVars>>

setAgentEmail ==
    /\ \E v \in AgentEmails : agentEmail' = v
    /\ UNCHANGED <<rawNotes, issueType, bookingTotal, refundedAmount, loading, payload,
                   result, saveStatus, step, closure, fetches, addDocs, auditDoc,
                   serverVars>>

\* faulty variant: the Analyze button is disabled for blank notes only
AnalyzeDisabled_NotesOnly == Trim(rawNotes) = <<>>

\* disabled={loading || !rawNotes.trim()} (line 247)
AnalyzeDisabled == loading \/ Trim(rawNotes) = <<>>

\* faulty variant: setResult(null) and setSaveStatus("") are missing
handleAnalyze_KeepsResult ==
    /\ ~AnalyzeDisabled
    /\ loading' = TRUE
    /\ payload' = Payload(rawNotes, issueType, bookingTotal, refundedAmount)
    /\ closure' = [rawNotes |-> rawNotes, issueType |-> issueType,
                   bookingTotal |-> bookingTotal, refundedAmount |-> refundedAmount,
                   agentEmail |-> agentEmail]
    /\ auditDoc' = NoDoc
    /\ fetches' = fetches + 1
    /\ step' = "fetching"
    /\ UNCHANGED <<rawNotes, issueType, bookingTotal, refundedAmount, agentEmail,
                   result, saveStatus, addDocs, serverVars>>

\* the Analyze button is enabled and handleAnalyze runs up to the await of
\* the fetch (lines 96-117)
handleAnalyze ==
    /\ ~AnalyzeDisabled
    /\ loading' = TRUE
    /\ result' = Null
    /\ saveStatus' = NoStatus
    /\ payload' = Payload(rawNotes, issueType, bookingTotal, refundedAmount)
    /\ closure' = [rawNotes |-> rawNotes, issueType |-> issueType,
                   bookingTotal |-> bookingTotal, refundedAmount |-> refundedAmount,
                   agentEmail |-> agentEmail]
    /\ auditDoc' = NoDoc
    /\ fetches' = fetches + 1
    /\ step' = "fetching"
    /\ UNCHANGED <<rawNotes, issueType, bookingTotal, refundedAmount, agentEmail,
                   addDocs, serverVars>>

\* faulty variant: the finally block is missing
CatchFinally_NoFinally(msg) ==
    /\ saveStatus' = Failed(msg)
    /\ step' = "idle"
    /\ closure' = NoClosure
    /\ UNCHANGED loading

\* catch (lines 149-151) and finally (lines 152-154): handleAnalyze is over
CatchFinally(msg) ==
    /\ saveStatus' = Failed(msg)
    /\ loading' = FALSE
    /\ step' = "idle"
    /\ closure' = NoClosure

\* the fetch rejects (line 113)
fetchRejected ==
    /\ step = "fetching"
    /\ fetches' = fetches - 1
    /\ CatchFinally("Failed to fetch")
    /\ UNCHANGED <<rawNotes, issueType, bookingTotal, refundedAmount, agentEmail,
                   payload, result, addDocs, auditDoc, serverVars>>

\* faulty variant: the audit record is written for a failed analysis too
responseNotOk_WritesAudit ==
    /\ step = "fetching"
    /\ fetches' = fetches - 1
    /\ saveStatus' = Saving
    /\ auditDoc' = AuditRecord(closure, EmptyObject)
    /\ addDocs' = addDocs + 1
    /\ step' = "saving"
    /\ UNCHANGED <<rawNotes, issueType, bookingTotal, refundedAmount, agentEmail,
                   payload, result, loading, closure, serverVars>>

\* a response without res.ok: its text, or the status line, is thrown
\* (lines 119-122)
responseNotOk ==
    /\ step = "fetching"
    /\ fetches' = fetches - 1
    /\ \E text \in ErrorTexts :
          CatchFinally(IF text = "" THEN "Server error (400)" ELSE text)
    /\ UNCHANGED <<rawNotes, issueType, bookingTotal, refundedAmount, agentEmail,
                   payload, result, addDocs, auditDoc, serverVars>>

\* a response with res.ok (lines 124-146): res.json() may throw; setResult;
\* reading a member of null throws; otherwise the banner says saving and
\* addDoc is called
responseOk ==
    /\ step = "fetching"
    /\ fetches' = fetches - 1
    /\ \E data \in ResponseBodies :
          IF data = NotJSON
          THEN /\ CatchFinally("SyntaxError")
               /\ UNCHANGED <<result, addDocs, auditDoc>>
          ELSE IF data = Null
          THEN /\ result' = Null
               /\ CatchFinally("TypeError")
               /\ UNCHANGED <<addDocs, auditDoc>>
          ELSE /\ result' = data
               /\ saveStatus' = Saving
               /\ auditDoc' = AuditRecord(closure, data)
               /\ addDocs' = addDocs + 1
               /\ step' = "saving"
               /\ UNCHANGED <<loading, closure>>
    /\ UNCHANGED <<rawNotes, issueType, bookingTotal, refundedAmount, agentEmail,
                   payload, serverVars>>

\* addDoc resolves (line 148), then finally
addDocResolved ==
    /\ step = "saving"
    /\ addDocs' = addDocs - 1
    /\ saveStatus' = Saved
    /\ loading' = FALSE
    /\ step' = "idle"
    /\ closure' = NoClosure
    /\ UNCHANGED <<rawNotes, issueType, bookingTotal, refundedAmount, agentEmail,
                   payload, result, fetches, auditDoc, serverVars>>

\* faulty variant: a failed audit write is attempted again
addDocRejected_Retry ==
    /\ step = "saving"
    /\ \E msg \in AddDocErrors : saveStatus' = Failed(msg)
    /\ UNCHANGED <<rawNotes, issueType, bookingTotal, refundedAmount, agentEmail,
                   payload, result, fetches, addDocs, auditDoc, loading, step,
                   closure, serverVars>>

\* addDoc rejects: catch and finally
addDocRejected ==
    /\ step = "saving"
    /\ addDocs' = addDocs - 1
    /\ \E msg \in AddDocErrors : CatchFinally(msg)
    /\ UNCHANGED <<rawNotes, issueType, bookingTotal, refundedAmount, agentEmail,
                   payload, result, fetches, auditDoc, serverVars>>

\* faulty variant: Clear keeps the agent email
handleClear_KeepsEmail ==
    /\ ~loading
    /\ rawNotes' = <<>>
    /\ result' = Null
    /\ saveStatus' = NoStatus
    /\ bookingTotal' = <<>>
    /\ refundedAmount' = <<>>
    /\ issueType' = Modification
    /\ UNCHANGED <<agentEmail, loading, payload, step, closure, fetches, addDocs,
                   auditDoc, serverVars>>

\* the Clear button is enabled (line 255) and handleClear runs (lines 157-165)
handleClear ==
    /\ ~loading
    /\ rawNotes' = <<>>
    /\ result' = Null
    /\ saveStatus' = NoStatus
    /\ bookingTotal' = <<>>
    /\ refundedAmount' = <<>>
    /\ issueType' = Modification
    /\ agentEmail' = <<>>
    /\ UNCHANGED <<loading, payload, step, closure, fetches, addDocs, auditDoc,
                   serverVars>>

(***************************************************************************)
(* Specification of the endpoint                                           *)
(***************************************************************************)
ServerFiles == {"server_js", "part_001"}

Init ==
    /\ server \in ServerFiles
    /\ pc = "idle"
    /\ body = Undefined
    /\ input = Undefined
    /\ refundPercent = Undefined
    /\ softCapExceeded = Undefined
    /\ hardCapExceeded = Undefined
    /\ prompt = NoPrompt
    /\ engineCalls = 0
    /\ reply = NoReply
    /\ response = NoResponse
    /\ calls = [i \in RequestIds |-> IdleCall]
    /\ rawNotes = <<>>
    /\ issueType = Modification
    /\ bookingTotal = <<>>
    /\ refundedAmount = <<>>
    /\ loading = FALSE
    /\ payload = Undefined
    /\ agentEmail = <<>>
    /\ result = Null
    /\ saveStatus = NoStatus
    /\ step = "idle"
    /\ closure = NoClosure
    /\ fetches = 0
    /\ addDocs = 0
    /\ auditDoc = NoDoc

Next ==
    \/ AnalyzePost_server_js
    \/ AnalyzePost_part_001
    \/ AnalyzeResume_server_js
    \/ AnalyzeResume_part_001

Spec == Init /\ [][Next]_vars

(***************************************************************************)
(* Specification of the endpoint serving requests concurrently             *)
(***************************************************************************)
NextConcurrent ==
    \E i \in RequestIds :
        \/ PostAnalyze(i)
        \/ ResumeAnalyze(i)

SpecConcurrent == Init /\ [][NextConcurrent]_vars

(***************************************************************************)
(* Specification of the client                                             *)
(***************************************************************************)
NextClient ==
    \/ setRawNotes
    \/ setIssueType
    \/ setBookingTotal
    \/ setRefundedAmount
    \/ handleAnalyze

SpecClient == Init /\ [][NextClient]_vars

(***************************************************************************)
(* Specification of the amount fields and the values rendered from them    *)
(***************************************************************************)
NextFields ==
    \/ typeBookingTotal
    \/ typeRefundedAmount

SpecFields == Init /\ [][NextFields]_vars

(***************************************************************************)
(* Specification of the client, a submission followed to its end           *)
(***************************************************************************)
NextApp ==
    \/ setRawNotes
    \/ setIssueType
    \/ editBookingTotal
    \/ editRefundedAmount
    \/ setAgentEmail
    \/ handleAnalyze
    \/ fetchRejected
    \/ responseNotOk
    \/ responseOk
    \/ addDocResolved
    \/ addDocRejected
    \/ handleClear

SpecApp == Init /\ [][NextApp]_vars

\* the analysis request and the audit write each complete or fail in the end
FetchSettles == fetchRejected \/ responseNotOk \/ responseOk
AddDocSettles == addDocResolved \/ addDocRejected

SpecAppFair == SpecApp /\ WF_vars(FetchSettles) /\ WF_vars(AddDocSettles)

(***************************************************************************)
(* Properties of the endpoint                                              *)
(***************************************************************************)
\* the policy facts the request determines
LocalPolicy ==
    LET percent == computeRefundPercent(input.bookingTotal, input.refundedAmount)
    IN  [encouraged_cap_percent |-> input.encouragedRefundCapPercent,
         max_cap_percent        |-> input.maxRefundCapPercent,
         refund_percent         |-> percent,
         soft_cap_exceeded      |-> (percent # Null
                                       /\ Greater(percent, input.encouragedRefundCapPercent)),
         hard_cap_exceeded      |-> (percent # Null
                                       /\ Greater(percent, input.maxRefundCapPercent))]

\* the engine's output carries its own policy sub-object
EngineSentPolicy == "policy" \in DOMAIN reply.obj /\ reply.obj["policy"] # Null

\* C1: in every successful response whose engine output carries a policy
\* sub-object, the five deterministic policy fields have the locally computed
\* values, whatever the engine supplied for them (local truth wins).
C1_LocalTruthWins ==
    (pc = "responded" /\ EngineSentPolicy) =>
        /\ "policy" \in DOMAIN response.body
        /\ \A f \in PolicyFields :
              /\ f \in DOMAIN response.body["policy"]
              /\ response.body["policy"][f] = LocalPolicy[f]

\* C2: every successful response carries a policy object, also when the
\* engine output has no policy member.
C2_PolicyAlwaysPresent ==
    pc = "responded" =>
        /\ "policy" \in DOMAIN response.body
        /\ response.body["policy"] # Null

\* C3: every successful response has each of the five sequence fields; one the
\* engine omitted is there as the empty sequence.
C3_SeqFieldsPresent ==
    pc = "responded" =>
        \A f \in SeqFields :
            /\ f \in DOMAIN response.body
            /\ (f \notin DOMAIN reply.obj => response.body[f] = <<>>)

\* the request names rawNotes shorter than 10 characters or an empty issueType
ShortNotesOrNoIssue(b) ==
    \/ (b.rawNotes.k = "string" /\ Len(b.rawNotes.s) < 10)
    \/ b.issueType = Str(<<>>)

\* C4: a request whose rawNotes is shorter than 10 or whose issueType is empty
\* is answered with a client error, and the engine is never invoked for it.
C4_InvalidRejectedBeforeEngine ==
    (pc # "idle" /\ ShortNotesOrNoIssue(body)) =>
        /\ pc = "error-responded"
        /\ response.status = 400
        /\ DOMAIN response.body = {"error"}
        /\ engineCalls = 0
        /\ reply = NoReply

\* scenario D: rawNotes of length 5 was rejected without an engine call
C4_Witness ==
    /\ pc = "error-responded"
    /\ body.rawNotes.k = "string" /\ Len(body.rawNotes.s) = 5
    /\ body.issueType # Str(<<>>)
    /\ response.status = 400
    /\ engineCalls = 0

\* every check of the request other than rawNotes and issueType passes
RestOfRequestValid(b) ==
    /\ b.bookingTotal.k \in {"number", "null", "undefined"}
    /\ b.refundedAmount.k \in {"number", "null", "undefined"}
    /\ b.encouragedRefundCapPercent.k \in {"number", "undefined"}
    /\ b.maxRefundCapPercent.k \in {"number", "undefined"}

RequestValid(b) ==
    /\ b.rawNotes.k = "string" /\ b.issueType.k = "string"
    /\ ~ShortNotesOrNoIssue(b)
    /\ RestOfRequestValid(b)

\* C5: a call that passes validation sends exactly one request to the engine,
\* and no call sends more than one, whatever the engine answers (no retry).
C5_ExactlyOneEngineRequest ==
    /\ engineCalls <= 1
    /\ (pc # "idle" /\ RequestValid(body)) => engineCalls = 1
    /\ (pc \in {"responded", "error-responded"} /\ reply # NoReply) => engineCalls = 1

\* a transport failure was answered with an error after a single request
C5_Witness ==
    /\ pc = "error-responded"
    /\ reply.kind = "network"
    /\ engineCalls = 1

\* the engine's answer is a failure of the engine client, with this message
EngineFailure ==
    IF server = "server_js" THEN geminiGenerateJson_server_js(reply)
    ELSE geminiGenerateJson_part_001(reply)

\* C6: when validation or the engine client fails, the response is a 400 whose
\* body is exactly {error: <the underlying message>}, the later stages did not
\* run, and no 400 carries anything of an AnalysisResult.
C6_FailureIsSingleError ==
    /\ (pc # "idle" /\ ~RequestValid(body)) =>
          /\ response = [status |-> 400, body |-> [error |-> "ZodError"]]
          /\ prompt = NoPrompt /\ engineCalls = 0
    /\ (reply # NoReply /\ ~EngineFailure.ok) =>
          /\ response = [status |-> 400, body |-> [error |-> EngineFailure.message]]
          /\ pc = "error-responded"
    /\ (reply # NoReply /\ reply.kind = "http" /\ ~reply.ok) =>
          response.body = [error |-> reply.raw]
    /\ (reply # NoReply /\ reply.kind = "http" /\ reply.ok /\ reply.raw = "json"
          /\ reply.text = <<>>) =>
          response.body = [error |-> "No model text returned"]
    /\ response.status \in {0, 200, 400}
    /\ response.status = 400 => DOMAIN response.body = {"error"}
    /\ pc = "error-responded" <=> response.status = 400

\* the engine's non-success answer became the error of the response
C6_Witness ==
    /\ pc = "error-responded"
    /\ reply.kind = "http" /\ ~reply.ok
    /\ response = [status |-> 400, body |-> [error |-> "quota exceeded"]]

\* refunded / total * 100 > cap, for total > 0, without the division
StrictlyAbove(total, refunded, cap) ==
    refunded.n * total.d * 100 * cap.d > cap.n * refunded.d * total.n

Determinable(in) ==
    /\ in.bookingTotal.k = "number" /\ in.bookingTotal.n > 0
    /\ in.refundedAmount.k = "number"

\* the handler of part_001 has computed the policy facts of a valid request
FactsComputed == server = "part_001" /\ pc # "idle" /\ input # Undefined

\* C7: with a determinable refund percent, softCapExceeded is true iff the
\* percent is strictly above the encouraged cap and hardCapExceeded iff it is
\* strictly above the maximum cap; at a cap exactly, that cap's flag is false
\* (560 / 85.06: soft only; 100 / 25: both).
C7_CapFlagsStrict ==
    (FactsComputed /\ Determinable(input)) =>
        /\ softCapExceeded = StrictlyAbove(input.bookingTotal, input.refundedAmount,
                                           input.encouragedRefundCapPercent)
        /\ hardCapExceeded = StrictlyAbove(input.bookingTotal, input.refundedAmount,
                                           input.maxRefundCapPercent)
        /\ refundPercent = input.encouragedRefundCapPercent => softCapExceeded = FALSE
        /\ refundPercent = input.maxRefundCapPercent => hardCapExceeded = FALSE
        /\ (body.bookingTotal = Whole(560) /\ body.refundedAmount = Num(8506, 100)
              /\ body.encouragedRefundCapPercent = Undefined
              /\ body.maxRefundCapPercent = Undefined)
             => (softCapExceeded = TRUE /\ hardCapExceeded = FALSE)
        /\ (body.bookingTotal = Whole(100) /\ body.refundedAmount = Whole(25)
              /\ body.encouragedRefundCapPercent = Undefined
              /\ body.maxRefundCapPercent = Undefined)
             => (softCapExceeded = TRUE /\ hardCapExceeded = TRUE)

\* a refund of exactly the encouraged cap (15 of 100) was found compliant
C7_Witness ==
    /\ FactsComputed
    /\ input.bookingTotal = Whole(100) /\ input.refundedAmount = Whole(15)
    /\ input.encouragedRefundCapPercent = Whole(15)
    /\ refundPercent = Whole(15)
    /\ softCapExceeded = FALSE /\ hardCapExceeded = FALSE

Undeterminable(b) ==
    \/ b.bookingTotal \in {Undefined, Null}
    \/ (b.bookingTotal.k = "number" /\ b.bookingTotal.n <= 0)
    \/ b.refundedAmount \in {Undefined, Null}

\* C8: when bookingTotal is absent, zero or negative, or refundedAmount is
\* absent, the computed refund percent is absent, both cap flags are false, and
\* the request (valid otherwise) passes validation and reaches the engine call.
C8_UndeterminablePercent ==
    (pc # "idle" /\ RequestValid(body) /\ Undeterminable(body)) =>
        /\ input # Undefined
        /\ engineCalls = 1
        /\ prompt # NoPrompt /\ prompt.refundPercent = [k |-> "unknown"]
        /\ server = "part_001" =>
              /\ refundPercent = Null
              /\ softCapExceeded = FALSE
              /\ hardCapExceeded = FALSE

\* scenario C: total absent, refunded 50, the engine was invoked
C8_Witness ==
    /\ server = "part_001"
    /\ pc = "engine-invoked"
    /\ body.bookingTotal = Undefined /\ body.refundedAmount = Whole(50)
    /\ refundPercent = Null /\ softCapExceeded = FALSE /\ hardCapExceeded = FALSE
    /\ engineCalls = 1

\* the engine answered with a non-empty text that is not a JSON document
TextNotStrictJSON ==
    /\ reply # NoReply /\ reply.kind = "http" /\ reply.ok /\ reply.raw = "json"
    /\ reply.text # <<>> /\ reply.text # <<"{", "}">>

\* the text from its first "{" to its last "}" is a JSON document
BraceSpanParses(text) ==
    \E i, j \in 1..Len(text) :
        /\ i < j /\ text[i] = "{" /\ text[j] = "}"
        /\ \A h \in 1..(i - 1) : text[h] # "{"
        /\ \A h \in (j + 1)..Len(text) : text[h] # "}"
        /\ SubSeq(text, i, j) = <<"{", "}">>

MalformedOutputMessages == {"Model did not return JSON", "SyntaxError"}

\* C9: when the engine's text does not parse strictly, the span from the first
\* "{" to the last "}" is parsed: prose around a JSON object yields the object,
\* and a text without a brace pair, or whose span does not parse, fails with
\* the malformed-output error.
C9_BraceSpanFallback ==
    TextNotStrictJSON =>
        IF BraceSpanParses(reply.text)
        THEN /\ pc = "responded"
             /\ \A key \in DOMAIN reply.obj \ {"policy"} :
                   key \in DOMAIN response.body /\ response.body[key] = reply.obj[key]
        ELSE /\ pc = "error-responded"
             /\ response.body.error \in MalformedOutputMessages

\* C17: in a successful response every member of the engine's output other
\* than policy has the engine's value, and so has every member of the engine's
\* policy sub-object other than the five policy fields computed locally.
C17_ReconciliationFrame ==
    pc = "responded" =>
        /\ \A key \in DOMAIN reply.obj \ {"policy"} :
              key \in DOMAIN response.body /\ response.body[key] = reply.obj[key]
        /\ EngineSentPolicy =>
              /\ "policy" \in DOMAIN response.body
              /\ \A f \in DOMAIN reply.obj["policy"] \ PolicyFields :
                    /\ f \in DOMAIN response.body["policy"]
                    /\ response.body["policy"][f] = reply.obj["policy"][f]

C17_Witness ==
    /\ pc = "responded" /\ server = "part_001"
    /\ EngineSentPolicy
    /\ "reviewer" \in DOMAIN reply.obj["policy"]
    /\ "signals" \in DOMAIN response.body
    /\ "max_cap_percent" \in DOMAIN response.body["policy"]

TransportFailed == reply # NoReply /\ reply.kind = "http" /\ ~reply.ok
EmptyModelText ==
    reply # NoReply /\ reply.kind = "http" /\ reply.ok /\ reply.raw = "json"
      /\ reply.text = <<>>

\* C18: when the engine's transport answers without success, the engine client
\* fails with the raw response body as its message, whatever that body is
\* (nothing is parsed), and the endpoint's error response carries that body;
\* when the transport succeeds and the engine's text is absent or empty, the
\* engine client fails with the empty-output error.
C18_TransportErrors ==
    /\ TransportFailed =>
          /\ EngineFailure = Thrown(reply.raw)
          /\ pc = "error-responded"
          /\ response = ErrorResponse(reply.raw)
    /\ EmptyModelText =>
          /\ EngineFailure = Thrown("No model text returned")
          /\ pc = "error-responded"
          /\ response = ErrorResponse("No model text returned")

C18_Witness ==
    /\ TransportFailed /\ reply.raw = "quota exceeded"
    /\ response.status = 400 /\ response.body.error = "quota exceeded"

\* the response to the request body b and the engine's answer r when the
\* request is the only one served
SoloResponse(b, r) ==
    Resumed(server, Posted(server, b), Posted(server, b), r, FALSE).response

\* C19: whatever the interleaving of the requests served concurrently, the
\* response to each request is the one determined by that request's body and,
\* when the engine was asked, by the engine's answer to that request: the
\* response the same request gets when served alone.
C19_RequestsIndependent ==
    \A i \in RequestIds :
        /\ calls[i].pc \in {"responded", "error-responded"} /\ calls[i].reply # NoReply =>
              calls[i].response = SoloResponse(calls[i].body, calls[i].reply)
        /\ calls[i].pc = "error-responded" /\ calls[i].reply = NoReply =>
              calls[i].response = Posted(server, calls[i].body).response
        /\ calls[i].pc = "engine-invoked" => calls[i].response = NoResponse

\* two requests with different amounts were in flight together and both answered
C19_Witness ==
    /\ server = "part_001"
    /\ calls[1].pc = "responded" /\ calls[2].pc = "responded"
    /\ (calls[1].overlap \/ calls[2].overlap)
    /\ calls[1].body # calls[2].body
    /\ calls[1].response.body["policy"] # calls[2].response.body["policy"]

CapsOrdered ==
    ~Greater(input.encouragedRefundCapPercent, input.maxRefundCapPercent)

\* C21: in the policy facts computed locally for a request whose encouraged
\* cap is at most its maximum cap, hardCapExceeded implies softCapExceeded
\* (nothing is stated for a request whose encouraged cap is above its maximum
\* cap).
C21_HardImpliesSoft ==
    (FactsComputed /\ CapsOrdered) => (hardCapExceeded = TRUE => softCapExceeded = TRUE)

\* 25 of 100 under the default caps 15 and 20: both flags
C21_Witness ==
    /\ FactsComputed /\ CapsOrdered
    /\ input.encouragedRefundCapPercent = Whole(DefaultEncouragedCap)
    /\ input.maxRefundCapPercent = Whole(DefaultMaxCap)
    /\ refundPercent = Whole(25)
    /\ hardCapExceeded = TRUE /\ softCapExceeded = TRUE

(***************************************************************************)
(* Properties of the client                                                *)
(***************************************************************************)
\* C10: at a submission, the refund percent the client displays for the
\* contents of the Booking Total and Refunded Amount fields equals the refund
\* percent the server computes from the payload sent for those fields.
C10_ClientMatchesServer ==
    [][(~loading /\ loading') =>
          ClientRefundPercent(bookingTotal', refundedAmount')
            = computeRefundPercent(payload'.bookingTotal, payload'.refundedAmount)]_vars

(***************************************************************************)
(* Properties of the client's submission                                   *)
(***************************************************************************)
\* C11: an audit write is issued only in the step that received a successful
\* analysis response and set it as the displayed result; while an audit write
\* is outstanding a result is displayed; no step issues one for a failed
\* analysis.
C11_AuditOnlyAfterResult ==
    /\ [](addDocs > 0 => result # Null /\ auditDoc # NoDoc)
    /\ [][(addDocs' > addDocs \/ (auditDoc' # auditDoc /\ auditDoc' # NoDoc)) =>
            /\ step = "fetching"
            /\ result' \in ResponseBodies \ {Null, NotJSON}
            /\ auditDoc' = AuditRecord(closure, result')]_vars

C11_Witness == addDocs = 1 /\ result # Null /\ saveStatus = Saving

\* C12: in the step in which the audit write fails, the displayed result stays
\* as it is, the banner shows the failure, the submission is over, and no
\* analysis request or audit write is outstanding or issued; outside a
\* submission nothing is outstanding.
AuditWriteFails == step = "saving" /\ saveStatus' # saveStatus /\ saveStatus' # Saved

C12_AuditFailureKeepsResult ==
    /\ [](~loading => fetches = 0 /\ addDocs = 0)
    /\ [][AuditWriteFails =>
            /\ result' = result /\ result' # Null
            /\ saveStatus'.banner = "error"
            /\ saveStatus'.message \in AddDocErrors
            /\ fetches' = 0 /\ addDocs' = 0
            /\ auditDoc' = auditDoc
            /\ ~loading']_vars

C12_Witness ==
    /\ ~loading /\ result # Null /\ auditDoc # NoDoc
    /\ saveStatus.banner = "error"

\* C13: a submission is in flight from the submit until the analysis failed
\* or the audit write finished, and loading is set throughout; a step that
\* issues an analysis request starts from a state with no submission in
\* flight and with notes that are not blank; hence at most one analysis
\* request or audit write is outstanding at any time.
InFlight == step # "idle"
RequestIssued == fetches' > fetches

C13_OneSubmissionAtATime ==
    /\ [](InFlight => loading)
    /\ [](fetches \in 0..1 /\ addDocs \in 0..1 /\ fetches + addDocs <= 1)
    /\ [][RequestIssued =>
            /\ ~InFlight /\ ~loading
            /\ fetches = 0 /\ addDocs = 0
            /\ Trim(rawNotes) # <<>>]_vars

C13_Witness == InFlight /\ fetches = 1 /\ Trim(rawNotes) = <<>> /\ auditDoc = NoDoc

\* C14: a Clear step, taken from any reachable state in which the Clear button
\* is enabled, leaves every field with the value it has initially: notes,
\* issue type, booking total, refunded amount, agent identifier, displayed
\* result and status banner.
InitialFields ==
    /\ rawNotes = <<>>
    /\ issueType = Modification
    /\ bookingTotal = <<>>
    /\ refundedAmount = <<>>
    /\ agentEmail = <<>>
    /\ result = Null
    /\ saveStatus = NoStatus

C14_ClearResetsEveryField == [][handleClear => InitialFields']_vars

\* cleared after an analysis whose audit record was written
C14_Witness == ~loading /\ auditDoc # NoDoc /\ auditDoc.agentEmail.s = <<"a", "@", "b">> /\ InitialFields

\* C15: the document handed to the audit store carries the request's rawNotes,
\* issueType, bookingTotal and refundedAmount with the values sent in the
\* request (null included, whatever the fields hold by then), the refund
\* percent derived from them, every field of the analysis displayed, and the
\* agent identifier, "unknown" when none was entered.
AuditWriteOutstanding == step = "saving"

CarriesRequestFields ==
    /\ auditDoc.rawNotes = payload.rawNotes
    /\ auditDoc.issueType = payload.issueType
    /\ auditDoc.bookingTotal = payload.bookingTotal
    /\ auditDoc.refundedAmount = payload.refundedAmount

CarriesDerivedPercent ==
    auditDoc.refundPercent
      = computeRefundPercent(auditDoc.bookingTotal, auditDoc.refundedAmount)

CarriesAnalysisFields ==
    \A key \in DOMAIN result :
        key \in DOMAIN auditDoc /\ auditDoc[key] = result[key]

CarriesAgent ==
    auditDoc.agentEmail
      = Str(IF closure.agentEmail = <<>> THEN <<"u", "n", "k", "n", "o", "w", "n">>
            ELSE closure.agentEmail)

C15_AuditRecordCarriesRequest ==
    AuditWriteOutstanding =>
        /\ CarriesRequestFields
        /\ CarriesDerivedPercent
        /\ CarriesAnalysisFields
        /\ CarriesAgent

(***************************************************************************)
(* Properties of the values rendered from the amount fields                *)
(***************************************************************************)
DisplayedPercent == ClientRefundPercent(bookingTotal, refundedAmount)
EncouragedCap == Payload(rawNotes, issueType, bookingTotal, refundedAmount).encouragedRefundCapPercent

AboveCap == DisplayedPercent # Null /\ Greater(DisplayedPercent, EncouragedCap)
WithinBandBelowCap ==
    /\ DisplayedPercent # Null
    /\ ~Greater(DisplayedPercent, EncouragedCap)
    /\ ~Greater(Num(EncouragedCap.n - 3 * EncouragedCap.d, EncouragedCap.d),
                DisplayedPercent)

\* C16: the cap hint is the escalation hint exactly when the displayed percent
\* is strictly above the encouraged cap, the caution hint exactly when the
\* percent is at most the cap and at most 3 points below it, and absent
\* otherwise, also when there is no percent.
C16_CapHint ==
    /\ capWarning(DisplayedPercent) = "Over 15% cap - escalation required" <=> AboveCap
    /\ capWarning(DisplayedPercent) = "Close to 15% cap - be careful" <=> WithinBandBelowCap
    /\ capWarning(DisplayedPercent) = "null" <=> (~AboveCap /\ ~WithinBandBelowCap)

\* the percent equals the cap: caution, not escalation
C16_Witness ==
    /\ DisplayedPercent = EncouragedCap
    /\ capWarning(DisplayedPercent) = "Close to 15% cap - be careful"

\* the three ends of a submission
ErrorDisplayed == result = Null /\ saveStatus.banner = "error" /\ auditDoc = NoDoc
AuditSaved == result # Null /\ saveStatus = Saved /\ auditDoc # NoDoc
AuditFailed == result # Null /\ saveStatus.banner = "error" /\ auditDoc # NoDoc

SubmissionEnds == loading /\ ~loading'

\* C20: provided the analysis request and the audit write each complete or
\* fail in the end, every submission in flight leaves the in-flight state; the
\* step that ends it leads to exactly one of error-displayed (no result, error
\* banner, no audit write issued), audit-saved (result, saved banner) and
\* audit-failed (result, error banner), with nothing outstanding and the
\* Analyze button blocked by blank notes only.
C20_SubmissionTerminates ==
    /\ [](loading => <>(~loading))
    /\ [][SubmissionEnds =>
            /\ (ErrorDisplayed' /\ ~AuditSaved' /\ ~AuditFailed')
                 \/ (AuditSaved' /\ ~ErrorDisplayed' /\ ~AuditFailed')
                 \/ (AuditFailed' /\ ~ErrorDisplayed' /\ ~AuditSaved')
            /\ step' = "idle" /\ fetches' = 0 /\ addDocs' = 0
            /\ (AnalyzeDisabled' <=> Trim(rawNotes') = <<>>)]_vars

C20_Witness == ~loading /\ AuditSaved /\ ~AnalyzeDisabled /\ agentEmail = <<>>

AwaitingResponse == loading /\ step = "fetching"

\* C22: the step that issues an analysis request drops the displayed result
\* and the status banner; while a request awaits its response no result is
\* displayed; and a result is displayed during a submission only while the
\* audit write of that very result is outstanding.
C22_NoStaleResult ==
    /\ [](AwaitingResponse => result = Null /\ saveStatus = NoStatus)
    /\ [](loading /\ result # Null =>
            /\ step = "saving" /\ addDocs = 1 /\ fetches = 0
            /\ auditDoc = AuditRecord(closure, result))
    /\ [][RequestIssued => result' = Null /\ saveStatus' = NoStatus]_vars

\* a result displayed during its own audit write, the fields edited meanwhile
C22_Witness ==
    /\ loading /\ result # Null /\ step = "saving"
    /\ auditDoc = AuditRecord(closure, result)
    /\ rawNotes # closure.rawNotes /\ bookingTotal # closure.bookingTotal

====
